---- MODULE Spec2Model ----
(***************************************************************************)
(* FrameGrabber: the grabber page (src/app/page.tsx), the frame editor     *)
(* (src/app/FrameEditor.tsx) and the earlier ffmpeg.wasm grabber page.     *)
(*                                                                         *)
(* Positions are counted in slider steps (one step is 0.04 s).  A video    *)
(* element is modelled after the HTML media element: setting currentTime   *)
(* on an element that has metadata starts a seek that replaces any seek    *)
(* still pending, and one seeked event fires when the last seek completes; *)
(* loading a new src aborts a pending seek.                                *)
(***************************************************************************)
EXTENDS Integers, Sequences, FiniteSets, TLC

\* ---------------------------------------------------------------- bounds
NumFiles == 2
MaxPos == 2
MaxEl == 2
MaxBlobs == 2
MaxTasks == 2
MaxObjs == 2
MaxRatio == 0
NumUploads == 1
MaxRetries == 2
MaxHist == 2
MaxUrls == 2
MaxLen == 3

\* ------------------------------------------------------- program constants
SliderStepCents == 4
HistoryLimit == 50
MaxImageHeight == 720
MinDurationMs == 1

VARIABLES
  \* Home (page.tsx)
  videoFile, videoUrl, duration, position, frameUrl, isExtracting,
  activeTab, frameToEdit, frameToEditRef, hasExistingFrame,
  \* the DOM side of Home
  videoRef, videoEls, blobTasks,
  \* FrameEditor (FrameEditor.tsx)
  hasCanvas, fabricCanvas, history, historyIndex, isLoadingHistory,
  loadedImageRef, selectedTool, canvasInitialized, keydownRegistered, shape,
  \* timers, image loads and promises of the editor that have not run yet
  tasks,
  \* observations: reschedules of loadImage, the last shortcut pressed,
  \* and the progress of an undo that is followed by a redo
  loadImageRetries, lastKey, probe,
  \* Home of the ffmpeg.wasm grabber: its state, the load and the extraction
  \* under way, whether the preload effect is due, the object URLs of
  \* frames that are not revoked, and whether a load has failed
  isLoadingFFmpeg, isReady, ffmpegRef, ffLoad, preloadDue, ffJob, objectUrls,
  loadFailed

pageVars == <<videoFile, videoUrl, duration, position, frameUrl, isExtracting,
              activeTab, frameToEdit, frameToEditRef, hasExistingFrame,
              videoRef, videoEls, blobTasks>>

edVars == <<hasCanvas, fabricCanvas, history, historyIndex, isLoadingHistory,
            loadedImageRef, selectedTool, canvasInitialized, keydownRegistered,
            shape, tasks, loadImageRetries, lastKey, probe>>

ffVars == <<isLoadingFFmpeg, isReady, ffmpegRef, ffLoad, preloadDue, ffJob,
            objectUrls, loadFailed>>

vars == <<pageVars, edVars, ffVars>>

\* ----------------------------------------------------------------- values
NoUrl == [kind |-> "null"]
NoLoad == [by |-> "none"]
NoJob == [stage |-> "none"]

NoEl == [src |-> 0, ready |-> FALSE, time |-> 0, seeking |-> FALSE,
         listeners |-> <<>>]

ElIds == 1..MaxEl

\* An element is kept while it is mounted or still carries a listener.
InUse(els, ref, e) == e = ref \/ els[e].listeners # <<>>

Normalise(els, ref) ==
  [e \in ElIds |-> IF InUse(els, ref, e) THEN els[e] ELSE NoEl]

FreeIds(els, ref) == {e \in ElIds : ~InUse(els, ref, e)}

FreshId(els, ref) == CHOOSE e \in FreeIds(els, ref) :
                        \A d \in FreeIds(els, ref) : e <= d

\* video.currentTime = t
SetCurrentTime(el, t) ==
  IF el.ready THEN [el EXCEPT !.time = t, !.seeking = TRUE]
              ELSE [el EXCEPT !.time = t]

\* <video src=...> receives a new src: the media element load algorithm
LoadSrc(el, f) ==
  [el EXCEPT !.src = f, !.ready = FALSE, !.time = 0, !.seeking = FALSE]

\* metadata arrives: a position set earlier is sought now
MetadataLoaded(el) == [el EXCEPT !.ready = TRUE, !.seeking = (el.time > 0)]

FileDuration(f) == MaxPos

\* position.toFixed(2), in hundredths of a second
ToFixed2(p) == p * SliderStepCents

DownloadName(p) == [prefix |-> "frame_", cents |-> ToFixed2(p), suffix |-> "s.jpg"]

\* the grabber panel shows the <video>, the slider and the Get Frame button
VideoShown == activeTab = "grabber" /\ videoUrl # 0

\* ------------------------------------------------------- editor: values
NoCanvas == [kind |-> "null"]
NoSrc == [kind |-> "none"]
NoKey == [key |-> "none"]
NoProbe == [phase |-> "none"]

\* ASPECT_RATIOS, by index
ASPECT_RATIOS ==
  <<[label |-> "16:9", width |-> 1280, height |-> 720],
    [label |-> "4:3",  width |-> 960,  height |-> 720],
    [label |-> "1:1",  width |-> 720,  height |-> 720],
    [label |-> "3:4",  width |-> 720,  height |-> 960],
    [label |-> "9:16", width |-> 720,  height |-> 1280]>>

\* pixel sizes of the images the model feeds in
VideoSize(f) == IF f = 1 THEN [w |-> 1920, h |-> 1080] ELSE [w |-> 640, h |-> 360]
UploadSize(n) == [w |-> 800, h |-> 600 + 200 * n]

UploadSrc(n) == [kind |-> "upload", n |-> n]

ImageSize(src) == IF src.kind = "upload" THEN UploadSize(src.n) ELSE VideoSize(src.file)

CeilDiv(a, b) == (a + b - 1) \div b

\* Math.ceil(imageWidth * scale) + 1 with scale = maxHeight / imageHeight
\* when the image is taller than maxHeight, else 1
FitWidth(sz) == IF sz.h > MaxImageHeight
                  THEN CeilDiv(sz.w * MaxImageHeight, sz.h) + 1
                  ELSE sz.w + 1
FitHeight(sz) == IF sz.h > MaxImageHeight THEN MaxImageHeight + 1 ELSE sz.h + 1

\* new fabric.Canvas(el, {width, height, ...})
NewCanvas(w, h) ==
  [kind |-> "canvas", objs |-> <<>>, width |-> w, height |-> h,
   isDrawingMode |-> FALSE, mouseTool |-> "none", pathCreated |-> FALSE]

\* objects: locked stands for selectable: false, evented: false
ImageObj(src) == [k |-> "image", src |-> src, locked |-> TRUE]
BgRect == [k |-> "bg", src |-> NoSrc, locked |-> TRUE]
PathObj == [k |-> "path", src |-> NoSrc, locked |-> FALSE]
ShapeObj(tool) == [k |-> tool, src |-> NoSrc, locked |-> FALSE]

\* canvas.toJSON(): selectable and evented are not among the serialized
\* properties
ToJSON(objs) == [i \in 1..Len(objs) |-> [k |-> objs[i].k, src |-> objs[i].src]]

\* the objects loadFromJSON puts on the canvas: unserialized properties
\* take their defaults
FromJSON(js) == [i \in 1..Len(js) |-> [k |-> js[i].k, src |-> js[i].src,
                                        locked |-> FALSE]]

\* the state saveHistory serializes
Snapshot(c) == [canvas |-> ToJSON(c.objs), width |-> c.width, height |-> c.height]

MinOf(a, b) == IF a < b THEN a ELSE b

\* a slice that keeps the entries after currentIndex
SliceAll(h, i) == h

\* history.slice(0, currentIndex + 1)
SliceTo(h, i) == SubSeq(h, 1, MinOf(i + 1, Len(h)))

\* a history that is never shortened
KeepAll(h) == h

\* while (newHistory.length > 50) newHistory.shift()
KeepLast(h) == IF Len(h) > HistoryLimit
                 THEN SubSeq(h, Len(h) - HistoryLimit + 1, Len(h))
                 ELSE h

\* a save that leaves the index where it was
saveHistoryKeepsIndex(c, h, i, loading) ==
  IF c = NoCanvas \/ loading
    THEN [h |-> h, i |-> i]
    ELSE [h |-> Append(h, Snapshot(c)), i |-> i]

\* saveHistory(): the new <<history, index>>
saveHistory(c, h, i, loading) ==
  IF c = NoCanvas \/ loading
    THEN [h |-> h, i |-> i]
    ELSE LET nh == KeepLast(Append(SliceTo(h, i), Snapshot(c)))
         IN [h |-> nh, i |-> Len(nh) - 1]

\* "Set up canvas event handlers" effect; its dependencies never change, so
\* it runs once, with the canvas it finds at mount
CanvasEventsEffect(c) ==
  IF c = NoCanvas THEN c ELSE [c EXCEPT !.pathCreated = TRUE]

\* "Keyboard shortcuts" effect; it too runs once, at mount
KeyboardEffect(c) == c # NoCanvas

\* the body of the tool selection effect
ToolEffect(c, tool) ==
  IF c = NoCanvas THEN c
  ELSE [c EXCEPT !.isDrawingMode = (tool = "draw"),
                 !.mouseTool = IF tool = "draw" THEN "none" ELSE tool]

\* its cleanup: canvas.off() removes every handler of the canvas
ToolEffectCleanup(c) ==
  IF c = NoCanvas THEN c
  ELSE [c EXCEPT !.mouseTool = "none", !.pathCreated = FALSE]

\* the prop the page hands to the editor
InitialImage(fte, ref) == IF fte # NoUrl THEN fte ELSE ref

\* <canvas ref={canvasRef}> is in the DOM
CanvasElPresent == activeTab = "editor" /\ hasCanvas

LiveTask(kind, arg) == [kind |-> kind, arg |-> arg, stale |-> FALSE]

RemoveAt(q, i) == SubSeq(q, 1, i - 1) \o SubSeq(q, i + 1, Len(q))

Room == Len(tasks) < MaxTasks

\* no callback of the mounted editor is outstanding
Quiet == \A i \in 1..Len(tasks) : tasks[i].stale

Tools == {"draw", "rectangle"}

MaxOfSet(S) == CHOOSE x \in S : \A y \in S : y <= x

\* the longest history in the refs or captured by a pending undo / redo
LongestHist ==
  MaxOfSet({Len(history)} \cup
           {Len(tasks[i].arg.hist) :
              i \in {j \in 1..Len(tasks) : tasks[j].kind = "historyLoaded"}})

\* callbacks and gestures under way that end in a saveHistory()
PendingSaves ==
  Cardinality({i \in 1..Len(tasks) :
                 ~tasks[i].stale /\ tasks[i].kind # "historyLoaded"})
  + (IF shape THEN 1 ELSE 0)

\* the user may start something that ends in another snapshot
HistRoom == LongestHist + PendingSaves < MaxHist

\* ------------------------------------------------------------------- Init
PageInit ==
  /\ videoFile = 0 /\ videoUrl = 0 /\ duration = 0 /\ position = 0
  /\ frameUrl = NoUrl /\ isExtracting = FALSE
  /\ activeTab = "grabber" /\ frameToEdit = NoUrl /\ frameToEditRef = NoUrl
  /\ hasExistingFrame = FALSE
  /\ videoRef = 0
  /\ videoEls = [e \in ElIds |-> NoEl]
  /\ blobTasks = <<>>

\* no FrameEditor instance exists
EditorAbsent ==
  /\ hasCanvas = FALSE /\ fabricCanvas = NoCanvas
  /\ history = <<>> /\ historyIndex = -1 /\ isLoadingHistory = FALSE
  /\ loadedImageRef = NoUrl /\ selectedTool = "draw" /\ canvasInitialized = 0
  /\ keydownRegistered = FALSE /\ shape = FALSE
  /\ lastKey = NoKey /\ probe = NoProbe

\* the ffmpeg.wasm version of Home is not the page that runs
FFAbsent ==
  /\ isLoadingFFmpeg = FALSE /\ isReady = FALSE /\ ffmpegRef = FALSE
  /\ ffLoad = NoLoad /\ preloadDue = FALSE
  /\ ffJob = NoJob
  /\ objectUrls = {} /\ loadFailed = FALSE

Init ==
  /\ PageInit
  /\ EditorAbsent
  /\ tasks = <<>>
  /\ loadImageRetries = 0
  /\ FFAbsent

\* ---------------------------------------------------------------- actions
\* setVideoFile / setVideoUrl / setPosition / setDuration of onChooseFile,
\* and what the <video> element makes of the new src; f = 0 is "no file"
SetVideo(f) ==
  /\ videoFile' = f
  /\ videoUrl' = f
  /\ position' = 0
  /\ duration' = 0
  /\ IF f # 0
       THEN IF videoRef # 0
              THEN /\ videoRef' = videoRef
                   /\ videoEls' = [videoEls EXCEPT ![videoRef] = LoadSrc(@, f)]
              ELSE /\ FreeIds(videoEls, 0) # {}
                   /\ videoRef' = FreshId(videoEls, 0)
                   /\ videoEls' = [videoEls EXCEPT ![videoRef'] = LoadSrc(NoEl, f)]
       ELSE /\ videoRef' = 0
            /\ videoEls' = Normalise(videoEls, 0)

\* onChooseFile(file)
onChooseFile(f) ==
  /\ activeTab = "grabber"
  /\ frameUrl' = NoUrl
  /\ SetVideo(f)
  /\ UNCHANGED <<ffVars, isExtracting, activeTab, frameToEdit, frameToEditRef,
                 hasExistingFrame, blobTasks, edVars>>

\* the element obtains its metadata; the mounted one reports its duration
onLoadedMetadata(e) ==
  /\ videoEls[e].src # 0
  /\ ~videoEls[e].ready
  /\ videoEls' = [videoEls EXCEPT ![e] = MetadataLoaded(videoEls[e])]
  /\ duration' = IF e = videoRef THEN FileDuration(videoEls[e].src) ELSE duration
  /\ UNCHANGED <<ffVars, videoFile, videoUrl, position, frameUrl, isExtracting,
                 activeTab, frameToEdit, frameToEditRef, hasExistingFrame,
                 videoRef, blobTasks, edVars>>

onSeekSlider(t) ==
  /\ VideoShown
  /\ t \in 0..duration
  /\ t # position
  /\ position' = t
  /\ videoEls' = [videoEls EXCEPT ![videoRef] = SetCurrentTime(@, t)]
  /\ UNCHANGED <<ffVars, videoFile, videoUrl, duration, frameUrl, isExtracting,
                 activeTab, frameToEdit, frameToEditRef, hasExistingFrame,
                 videoRef, blobTasks, edVars>>

\* a Get Frame button that is never disabled
GetFrameNeverDisabled == TRUE

\* is the Get Frame button clickable: disabled={isExtracting}
GetFrameEnabled == ~isExtracting

extractFrame ==
  /\ VideoShown
  /\ GetFrameEnabled
  /\ videoFile # 0
  /\ isExtracting' = TRUE
  /\ videoEls' = [videoEls EXCEPT ![videoRef] =
         LET a == SetCurrentTime(@, position)
             b == [a EXCEPT !.listeners =
                      Append(@, [pos |-> position, file |-> videoFile])]
         IN SetCurrentTime(b, position)]
  /\ UNCHANGED <<ffVars, videoFile, videoUrl, duration, position, frameUrl,
                 activeTab, frameToEdit, frameToEditRef, hasExistingFrame,
                 videoRef, blobTasks, edVars>>

\* what handleSeeked leaves on the element: it removes itself
AfterHandleSeeked(el) == [el EXCEPT !.seeking = FALSE, !.listeners = <<>>]

\* the seeked event fires on element e and runs every handleSeeked on it
Seeked(e, ctxOk) ==
  /\ videoEls[e].seeking
  /\ LET el == videoEls[e]
         frame == [file |-> el.src, t |-> el.time]
         n == Len(el.listeners)
     IN /\ Len(blobTasks) + n <= MaxBlobs
        /\ videoEls' = Normalise([videoEls EXCEPT ![e] = AfterHandleSeeked(el)],
                                 videoRef)
        /\ IF n = 0
             THEN UNCHANGED <<blobTasks, isExtracting>>
             ELSE IF ctxOk
               THEN /\ blobTasks' = blobTasks \o
                         [i \in 1..n |-> [frame |-> frame, req |-> el.listeners[i]]]
                    /\ UNCHANGED isExtracting
               ELSE /\ isExtracting' = FALSE
                    /\ UNCHANGED blobTasks
  /\ UNCHANGED <<ffVars, videoFile, videoUrl, duration, position, frameUrl,
                 activeTab, frameToEdit, frameToEditRef, hasExistingFrame,
                 videoRef, edVars>>

\* the callback of canvas.toBlob
toBlobCallback(blobOk) ==
  /\ blobTasks # <<>>
  /\ blobTasks' = Tail(blobTasks)
  /\ isExtracting' = FALSE
  /\ frameUrl' = IF blobOk
                   THEN LET b == Head(blobTasks)
                        IN [kind |-> "url", file |-> b.frame.file, t |-> b.frame.t,
                            reqFile |-> b.req.file, reqPos |-> b.req.pos]
                   ELSE frameUrl
  /\ UNCHANGED <<ffVars, videoFile, videoUrl, duration, position,
                 activeTab, frameToEdit, frameToEditRef, hasExistingFrame,
                 videoRef, videoEls, edVars>>


\* ------------------------------------------------- mounting the editor
MarkStale(q) == [i \in 1..Len(q) |-> [q[i] EXCEPT !.stale = TRUE]]

\* a FrameEditor instance is created with initialImage = img and its
\* effects run for the first time
EditorMount(img) ==
  /\ img # NoUrl => Room
  /\ hasCanvas' = (img # NoUrl)
  /\ fabricCanvas' = ToolEffect(CanvasEventsEffect(NoCanvas), "draw")
  /\ keydownRegistered' = KeyboardEffect(NoCanvas)
  /\ history' = <<>> /\ historyIndex' = -1 /\ isLoadingHistory' = FALSE
  /\ loadedImageRef' = img
  /\ selectedTool' = "draw" /\ canvasInitialized' = 0 /\ shape' = FALSE
  /\ tasks' = IF img # NoUrl THEN Append(tasks, LiveTask("loadImage", img))
                             ELSE tasks
  /\ lastKey' = NoKey /\ probe' = NoProbe
  /\ UNCHANGED loadImageRetries

\* the instance is unmounted: the canvas is disposed, the callbacks it
\* scheduled stay scheduled
EditorUnmount ==
  /\ hasCanvas' = FALSE /\ fabricCanvas' = NoCanvas
  /\ history' = <<>> /\ historyIndex' = -1 /\ isLoadingHistory' = FALSE
  /\ loadedImageRef' = NoUrl /\ selectedTool' = "draw" /\ canvasInitialized' = 0
  /\ keydownRegistered' = FALSE /\ shape' = FALSE
  /\ lastKey' = NoKey /\ probe' = NoProbe
  /\ tasks' = MarkStale(tasks)
  /\ UNCHANGED loadImageRetries

\* the "Frame Grabber" tab button
TabGrabber ==
  /\ activeTab = "editor"
  /\ activeTab' = "grabber"
  /\ frameToEdit' = NoUrl
  /\ frameToEditRef' = NoUrl
  /\ EditorUnmount
  /\ IF videoUrl # 0
       THEN /\ FreeIds(videoEls, 0) # {}
            /\ videoRef' = FreshId(videoEls, 0)
            /\ videoEls' = [videoEls EXCEPT ![videoRef'] = LoadSrc(NoEl, videoUrl)]
       ELSE UNCHANGED <<videoRef, videoEls>>
  /\ UNCHANGED <<ffVars, videoFile, videoUrl, duration, position, frameUrl,
                 isExtracting, hasExistingFrame, blobTasks>>

\* the grabber panel leaves the DOM
GrabberUnmount ==
  /\ videoRef' = 0
  /\ videoEls' = Normalise(videoEls, 0)

\* the "Frame Editor" tab button
TabEditor ==
  /\ activeTab = "grabber"
  /\ activeTab' = "editor"
  /\ GrabberUnmount
  /\ EditorMount(InitialImage(frameToEdit, frameToEditRef))
  /\ UNCHANGED <<ffVars, videoFile, videoUrl, duration, position, frameUrl,
                 isExtracting, frameToEdit, frameToEditRef, hasExistingFrame,
                 blobTasks>>

\* the "Edit Frame" button; confirmed is the answer to confirm()
handleEditFrame(confirmed) ==
  /\ VideoShown
  /\ frameUrl # NoUrl
  /\ IF hasExistingFrame /\ ~confirmed
       THEN UNCHANGED vars
       ELSE /\ frameToEditRef' = frameUrl
            /\ frameToEdit' = frameUrl
            /\ activeTab' = "editor"
            /\ GrabberUnmount
            /\ EditorMount(InitialImage(frameToEdit', frameToEditRef'))
            /\ UNCHANGED <<ffVars, videoFile, videoUrl, duration, position, frameUrl,
                           isExtracting, hasExistingFrame, blobTasks>>

\* ------------------------------------------------------ editor actions
\* the Create button of the new-frame dialog, with ratio r selected
createNewFrame(r) ==
  /\ activeTab = "editor"
  /\ Room
  /\ HistRoom
  /\ loadedImageRef' = NoUrl
  /\ hasCanvas' = TRUE
  /\ tasks' = Append(tasks, LiveTask("createFrameTimer", [r |-> r]))
  /\ probe' = NoProbe
  /\ lastKey' = NoKey
  /\ UNCHANGED <<ffVars, pageVars, fabricCanvas, history, historyIndex,
                 isLoadingHistory, selectedTool, canvasInitialized,
                 keydownRegistered, shape, loadImageRetries>>

\* the 50 ms timer of createNewFrame
createFrameTimer(i) ==
  /\ i \in 1..Len(tasks)
  /\ tasks[i].kind = "createFrameTimer" /\ ~tasks[i].stale
  /\ probe' = NoProbe
  /\ IF ~CanvasElPresent
       THEN /\ tasks' = RemoveAt(tasks, i)
            /\ UNCHANGED <<fabricCanvas, canvasInitialized, history, historyIndex>>
       ELSE LET ar == ASPECT_RATIOS[tasks[i].arg.r + 1]
                c == IF fabricCanvas = NoCanvas
                       THEN ToolEffect(NewCanvas(ar.width, ar.height), selectedTool)
                       ELSE [fabricCanvas EXCEPT !.objs = <<>>,
                                                 !.width = ar.width,
                                                 !.height = ar.height]
            IN /\ fabricCanvas' = [c EXCEPT !.objs = Append(@, BgRect)]
               /\ canvasInitialized' = IF fabricCanvas = NoCanvas
                                         THEN canvasInitialized + 1
                                         ELSE canvasInitialized
               /\ history' = <<>>
               /\ historyIndex' = -1
               /\ tasks' = Append(RemoveAt(tasks, i), LiveTask("saveTimer", NoSrc))
  /\ lastKey' = NoKey
  /\ UNCHANGED <<ffVars, pageVars, hasCanvas, isLoadingHistory, loadedImageRef,
                 selectedTool, keydownRegistered, shape, loadImageRetries>>

\* a 100 ms timer: if (fabricCanvasRef.current) { saveHistory(); ... }
saveTimer(i) ==
  /\ i \in 1..Len(tasks)
  /\ tasks[i].kind = "saveTimer" /\ ~tasks[i].stale
  /\ probe' = NoProbe
  /\ tasks' = RemoveAt(tasks, i)
  /\ LET r == saveHistory(fabricCanvas, history, historyIndex, isLoadingHistory)
     IN /\ history' = r.h
        /\ historyIndex' = r.i
  /\ lastKey' = NoKey
  /\ UNCHANGED <<ffVars, pageVars, hasCanvas, fabricCanvas, isLoadingHistory,
                 loadedImageRef, selectedTool, canvasInitialized,
                 keydownRegistered, shape, loadImageRetries>>

\* a file is picked in the Upload Frame input
handleFileUpload(n) ==
  /\ activeTab = "editor"
  /\ Room
  /\ HistRoom
  /\ tasks' = Append(tasks, LiveTask("readerOnload", UploadSrc(n)))
  /\ probe' = NoProbe
  /\ lastKey' = NoKey
  /\ UNCHANGED <<ffVars, pageVars, hasCanvas, fabricCanvas, history, historyIndex,
                 isLoadingHistory, loadedImageRef, selectedTool,
                 canvasInitialized, keydownRegistered, shape,
                 loadImageRetries>>

\* reader.onload
readerOnload(i) ==
  /\ i \in 1..Len(tasks)
  /\ tasks[i].kind = "readerOnload" /\ ~tasks[i].stale
  /\ probe' = NoProbe
  /\ loadedImageRef' = NoUrl
  /\ hasCanvas' = TRUE
  /\ tasks' = Append(RemoveAt(tasks, i), LiveTask("uploadTimer", tasks[i].arg))
  /\ lastKey' = NoKey
  /\ UNCHANGED <<ffVars, pageVars, fabricCanvas, history, historyIndex,
                 isLoadingHistory, selectedTool, canvasInitialized,
                 keydownRegistered, shape, loadImageRetries>>

\* the 50 ms timer of handleFileUpload
uploadTimer(i) ==
  /\ i \in 1..Len(tasks)
  /\ tasks[i].kind = "uploadTimer" /\ ~tasks[i].stale
  /\ probe' = NoProbe
  /\ IF ~CanvasElPresent
       THEN /\ tasks' = RemoveAt(tasks, i)
            /\ UNCHANGED <<fabricCanvas, canvasInitialized>>
       ELSE /\ fabricCanvas' =
                 IF fabricCanvas = NoCanvas
                   THEN ToolEffect(NewCanvas(ASPECT_RATIOS[1].width,
                                             ASPECT_RATIOS[1].height),
                                   selectedTool)
                   ELSE fabricCanvas
            /\ canvasInitialized' = IF fabricCanvas = NoCanvas
                                      THEN canvasInitialized + 1
                                      ELSE canvasInitialized
            /\ tasks' = Append(RemoveAt(tasks, i),
                               LiveTask("uploadImgOnload", tasks[i].arg))
  /\ lastKey' = NoKey
  /\ UNCHANGED <<ffVars, pageVars, hasCanvas, history, historyIndex, isLoadingHistory,
                 loadedImageRef, selectedTool, keydownRegistered, shape,
                 loadImageRetries>>

\* the canvas after an image has been fitted and added to it
WithImage(c, src) ==
  [c EXCEPT !.width = FitWidth(ImageSize(src)),
            !.height = FitHeight(ImageSize(src)),
            !.objs = Append(@, ImageObj(src))]

\* imgElement.onload of handleFileUpload; ok = FALSE: the image never loads
uploadImgOnload(i, ok) ==
  /\ i \in 1..Len(tasks)
  /\ tasks[i].kind = "uploadImgOnload" /\ ~tasks[i].stale
  /\ probe' = NoProbe
  /\ IF ok
       THEN /\ fabricCanvas' = WithImage([fabricCanvas EXCEPT !.objs = <<>>],
                                         tasks[i].arg)
            /\ history' = <<>>
            /\ historyIndex' = -1
            /\ tasks' = Append(RemoveAt(tasks, i), LiveTask("saveTimer", NoSrc))
            /\ hasExistingFrame' = TRUE
       ELSE /\ tasks' = RemoveAt(tasks, i)
            /\ UNCHANGED <<fabricCanvas, history, historyIndex, hasExistingFrame>>
  /\ lastKey' = NoKey
  /\ UNCHANGED <<ffVars, videoFile, videoUrl, duration, position, frameUrl,
                 isExtracting, activeTab, frameToEdit, frameToEditRef,
                 videoRef, videoEls, blobTasks,
                 hasCanvas, isLoadingHistory, loadedImageRef, selectedTool,
                 canvasInitialized, keydownRegistered, shape,
                 loadImageRetries>>

\* one more setTimeout(loadImage, 100), counted modulo MaxRetries + 1
Bump(n) == (n + 1) % (MaxRetries + 1)

\* loadImage of the "Load initial image" effect, run by its timer
loadImage(i) ==
  /\ i \in 1..Len(tasks)
  /\ tasks[i].kind = "loadImage" /\ ~tasks[i].stale
  /\ probe' = NoProbe
  /\ IF ~CanvasElPresent
       THEN /\ loadImageRetries' = Bump(loadImageRetries)
            /\ UNCHANGED <<tasks, fabricCanvas, canvasInitialized, history,
                           historyIndex>>
       ELSE /\ IF fabricCanvas = NoCanvas
                 THEN /\ fabricCanvas' =
                           ToolEffect(NewCanvas(ASPECT_RATIOS[1].width,
                                                ASPECT_RATIOS[1].height),
                                      selectedTool)
                      /\ canvasInitialized' = canvasInitialized + 1
                      /\ history' = <<>>
                      /\ historyIndex' = -1
                 ELSE UNCHANGED <<fabricCanvas, canvasInitialized, history,
                                  historyIndex>>
            /\ tasks' = Append(RemoveAt(tasks, i),
                               LiveTask("initImgOnload", tasks[i].arg))
            /\ UNCHANGED loadImageRetries
  /\ lastKey' = NoKey
  /\ UNCHANGED <<ffVars, pageVars, hasCanvas, isLoadingHistory, loadedImageRef,
                 selectedTool, keydownRegistered, shape>>

\* imgElement.onload / onerror of loadImage
initImgOnload(i, ok) ==
  /\ i \in 1..Len(tasks)
  /\ tasks[i].kind = "initImgOnload" /\ ~tasks[i].stale
  /\ probe' = NoProbe
  /\ IF ok
       THEN /\ fabricCanvas' = WithImage(fabricCanvas, tasks[i].arg)
            /\ history' = <<>>
            /\ historyIndex' = -1
            /\ tasks' = Append(RemoveAt(tasks, i), LiveTask("saveTimer", NoSrc))
       ELSE /\ tasks' = RemoveAt(tasks, i)
            /\ UNCHANGED <<fabricCanvas, history, historyIndex>>
  /\ lastKey' = NoKey
  /\ UNCHANGED <<ffVars, pageVars, hasCanvas, isLoadingHistory, loadedImageRef,
                 selectedTool, canvasInitialized, keydownRegistered, shape,
                 loadImageRetries>>

\* ------------------------------------------------------ undo and redo
\* the toolbar (Undo, Redo, Reset, tools) is rendered
ToolbarShown == activeTab = "editor" /\ hasCanvas

\* how an undo that starts now is followed: alone ("undoing"), or as the
\* second of two issued back to back ("twice")
ProbeOnUndo ==
  IF Quiet /\ ~isLoadingHistory
    THEN [phase |-> "undoing", hist |-> history, idx |-> historyIndex]
    ELSE IF probe.phase = "undoing"
      THEN [probe EXCEPT !.phase = "twice"]
      ELSE NoProbe

ProbeOnRedo ==
  IF probe.phase = "undone" THEN [probe EXCEPT !.phase = "redoing"] ELSE NoProbe

\* a load has completed: where that leaves the undo that is followed;
\* "loaded" is a completion outside of it
ProbeOnLoaded ==
  IF probe.phase = "undoing" THEN [probe EXCEPT !.phase = "undone"]
  ELSE IF probe.phase = "redoing" THEN [probe EXCEPT !.phase = "redone"]
  ELSE IF probe.phase = "twice" THEN [probe EXCEPT !.phase = "twiceOne"]
  ELSE IF probe.phase = "twiceOne" THEN [probe EXCEPT !.phase = "twiceDone"]
  ELSE [phase |-> "loaded"]

\* the phases in which a load has just completed
JustLoaded == {"loaded", "undone", "redone", "twiceOne", "twiceDone"}

\* the index undo() moves to
UndoIndex(i) == i - 1

\* a redo that reloads the snapshot it is on
RedoIndexStays(i) == i

\* the index redo() moves to
RedoIndex(i) == i + 1

\* the state changes of loading history[newIndex]: dimensions at once,
\* the objects when loadFromJSON resolves
StartLoad(newIndex) ==
  LET st == history[newIndex + 1]
  IN /\ isLoadingHistory' = TRUE
     /\ fabricCanvas' = [fabricCanvas EXCEPT !.width = st.width,
                                             !.height = st.height]
     /\ tasks' = Append(tasks, LiveTask("historyLoaded",
                                        [hist |-> history, idx |-> newIndex]))

\* undo()
undoCall ==
  IF historyIndex > 0 /\ fabricCanvas # NoCanvas
    THEN /\ Room
         /\ StartLoad(UndoIndex(historyIndex))
         /\ probe' = ProbeOnUndo
    ELSE UNCHANGED <<isLoadingHistory, fabricCanvas, tasks, probe>>

\* redo()
redoCall ==
  IF historyIndex < Len(history) - 1 /\ fabricCanvas # NoCanvas
    THEN /\ Room
         /\ StartLoad(RedoIndex(historyIndex))
         /\ probe' = ProbeOnRedo
    ELSE UNCHANGED <<isLoadingHistory, fabricCanvas, tasks, probe>>

\* the Undo button
undo ==
  /\ ToolbarShown
  /\ historyIndex > 0
  /\ undoCall
  /\ lastKey' = NoKey
  /\ UNCHANGED <<ffVars, pageVars, hasCanvas, history, historyIndex, loadedImageRef,
                 selectedTool, canvasInitialized, keydownRegistered, shape,
                 loadImageRetries>>

\* the Redo button
redo ==
  /\ ToolbarShown
  /\ historyIndex < Len(history) - 1
  /\ redoCall
  /\ lastKey' = NoKey
  /\ UNCHANGED <<ffVars, pageVars, hasCanvas, history, historyIndex, loadedImageRef,
                 selectedTool, canvasInitialized, keydownRegistered, shape,
                 loadImageRetries>>

\* canvas.loadFromJSON(state.canvas).then(...); ok = FALSE: the promise
\* rejects, and there is no handler for that
historyLoaded(i, ok) ==
  /\ i \in 1..Len(tasks)
  /\ tasks[i].kind = "historyLoaded" /\ ~tasks[i].stale
  /\ IF ok
       THEN /\ LET a == tasks[i].arg
               IN /\ fabricCanvas' = [fabricCanvas EXCEPT
                                        !.objs = FromJSON(a.hist[a.idx + 1].canvas)]
                  /\ history' = a.hist
                  /\ historyIndex' = a.idx
            /\ isLoadingHistory' = FALSE
            /\ probe' = ProbeOnLoaded
       ELSE /\ probe' = NoProbe
            /\ UNCHANGED <<fabricCanvas, history, historyIndex, isLoadingHistory>>
  /\ tasks' = RemoveAt(tasks, i)
  /\ lastKey' = NoKey
  /\ UNCHANGED <<ffVars, pageVars, hasCanvas, loadedImageRef, selectedTool,
                 canvasInitialized, keydownRegistered, shape,
                 loadImageRetries>>

\* Ctrl/Cmd+Z (shift = FALSE) or Ctrl/Cmd+Shift+Z (shift = TRUE) is pressed
pressShortcut(shift) ==
  /\ activeTab = "editor"
  /\ lastKey' = [key |-> IF shift THEN "redo" ELSE "undo",
                 canvas |-> fabricCanvas # NoCanvas,
                 handled |-> keydownRegistered]
  /\ IF keydownRegistered
       THEN IF shift THEN redoCall ELSE undoCall
       ELSE UNCHANGED <<isLoadingHistory, fabricCanvas, tasks, probe>>
  /\ UNCHANGED <<ffVars, pageVars, hasCanvas, history, historyIndex, loadedImageRef,
                 selectedTool, canvasInitialized, keydownRegistered, shape,
                 loadImageRetries>>

\* ------------------------------------------------------------- reset
\* the Reset button; confirmed is the answer to confirm()
clearCanvas(confirmed) ==
  /\ ToolbarShown
  /\ fabricCanvas # NoCanvas
  /\ confirmed
  /\ Room
  /\ HistRoom
  /\ probe' = NoProbe
  /\ fabricCanvas' = [fabricCanvas EXCEPT !.objs = <<>>]
  /\ LET img == InitialImage(frameToEdit, frameToEditRef)
     IN IF img # NoUrl
          THEN /\ tasks' = Append(tasks, LiveTask("clearImgOnload", img))
               /\ UNCHANGED <<loadedImageRef, history, historyIndex>>
          ELSE /\ loadedImageRef' = NoUrl
               /\ history' = <<>>
               /\ historyIndex' = -1
               /\ tasks' = Append(tasks, LiveTask("saveTimer", NoSrc))
  /\ lastKey' = NoKey
  /\ UNCHANGED <<ffVars, pageVars, hasCanvas, isLoadingHistory, selectedTool,
                 canvasInitialized, keydownRegistered, shape,
                 loadImageRetries>>

\* imgElement.onload of clearCanvas; ok = FALSE: the image never loads
clearImgOnload(i, ok) ==
  /\ i \in 1..Len(tasks)
  /\ tasks[i].kind = "clearImgOnload" /\ ~tasks[i].stale
  /\ probe' = NoProbe
  /\ IF ok
       THEN /\ fabricCanvas' = WithImage(fabricCanvas, tasks[i].arg)
            /\ history' = <<>>
            /\ historyIndex' = -1
            /\ tasks' = Append(RemoveAt(tasks, i), LiveTask("saveTimer", NoSrc))
       ELSE /\ tasks' = RemoveAt(tasks, i)
            /\ UNCHANGED <<fabricCanvas, history, historyIndex>>
  /\ lastKey' = NoKey
  /\ UNCHANGED <<ffVars, pageVars, hasCanvas, isLoadingHistory, loadedImageRef,
                 selectedTool, canvasInitialized, keydownRegistered, shape,
                 loadImageRetries>>

\* ----------------------------------------------------------- drawing
\* a freehand stroke is completed: fabric adds the path and fires
\* path:created
drawStroke ==
  /\ ToolbarShown
  /\ fabricCanvas # NoCanvas
  /\ fabricCanvas.isDrawingMode
  /\ Len(fabricCanvas.objs) < MaxObjs
  /\ fabricCanvas.pathCreated => HistRoom
  /\ probe' = NoProbe
  /\ LET c == [fabricCanvas EXCEPT !.objs = Append(@, PathObj)]
         r == IF c.pathCreated
                THEN saveHistory(c, history, historyIndex, isLoadingHistory)
                ELSE [h |-> history, i |-> historyIndex]
     IN /\ fabricCanvas' = c
        /\ history' = r.h
        /\ historyIndex' = r.i
  /\ lastKey' = NoKey
  /\ UNCHANGED <<ffVars, pageVars, hasCanvas, isLoadingHistory, loadedImageRef,
                 selectedTool, canvasInitialized, keydownRegistered, shape,
                 tasks, loadImageRetries>>

\* mouse:down of the rectangle / circle / line tools
shapeMouseDown ==
  /\ ToolbarShown
  /\ fabricCanvas # NoCanvas
  /\ fabricCanvas.mouseTool # "none"
  /\ ~shape
  /\ Len(fabricCanvas.objs) < MaxObjs
  /\ HistRoom
  /\ probe' = NoProbe
  /\ shape' = TRUE
  /\ fabricCanvas' = [fabricCanvas EXCEPT
                        !.objs = Append(@, ShapeObj(fabricCanvas.mouseTool))]
  /\ lastKey' = NoKey
  /\ UNCHANGED <<ffVars, pageVars, hasCanvas, history, historyIndex, isLoadingHistory,
                 loadedImageRef, selectedTool, canvasInitialized,
                 keydownRegistered, tasks, loadImageRetries>>

\* mouse:up of the rectangle / circle / line tools
shapeMouseUp ==
  /\ ToolbarShown
  /\ fabricCanvas # NoCanvas
  /\ fabricCanvas.mouseTool # "none"
  /\ shape
  /\ probe' = NoProbe
  /\ shape' = FALSE
  /\ LET r == saveHistory(fabricCanvas, history, historyIndex, isLoadingHistory)
     IN /\ history' = r.h
        /\ historyIndex' = r.i
  /\ lastKey' = NoKey
  /\ UNCHANGED <<ffVars, pageVars, hasCanvas, fabricCanvas, isLoadingHistory,
                 loadedImageRef, selectedTool, canvasInitialized,
                 keydownRegistered, tasks, loadImageRetries>>

\* a tool button: setSelectedTool(t), then the tool effect's cleanup and
\* the effect itself
selectTool(t) ==
  /\ ToolbarShown
  /\ t # selectedTool
  /\ probe' = NoProbe
  /\ selectedTool' = t
  /\ shape' = FALSE
  /\ fabricCanvas' = ToolEffect(ToolEffectCleanup(fabricCanvas), t)
  /\ lastKey' = NoKey
  /\ UNCHANGED <<ffVars, pageVars, hasCanvas, history, historyIndex, isLoadingHistory,
                 loadedImageRef, canvasInitialized, keydownRegistered, tasks,
                 loadImageRetries>>

\* --------------------------------------------------------------- crop
\* the dashed rectangle the crop tool's mouse handlers leave on the canvas
CropRectObj == [k |-> "cropRect", src |-> NoSrc, locked |-> TRUE]

\* the selection of the model's user: 640 x 360 from the upper left corner
CropSelection == [width |-> ASPECT_RATIOS[1].width \div 2,
                  height |-> ASPECT_RATIOS[1].height \div 2]

\* the data URL of the cropped area
CropSrc == [kind |-> "crop"]

\* a crop selection is on the canvas
HasCropSelection ==
  /\ fabricCanvas # NoCanvas
  /\ \E j \in 1..Len(fabricCanvas.objs) : fabricCanvas.objs[j] = CropRectObj

\* the Apply Crop button; the model's user presses it while the selection
\* is on the canvas
applyCrop ==
  /\ ToolbarShown
  /\ selectedTool = "crop"
  /\ HasCropSelection
  /\ Room
  /\ fabricCanvas' = [fabricCanvas EXCEPT
                        !.objs = <<>>,
                        !.width = MinOf(CropSelection.width, @),
                        !.height = MinOf(CropSelection.height, @)]
  /\ tasks' = Append(tasks, LiveTask("cropImgOnload", CropSrc))
  /\ probe' = NoProbe
  /\ lastKey' = NoKey
  /\ UNCHANGED <<ffVars, pageVars, hasCanvas, history, historyIndex,
                 isLoadingHistory, loadedImageRef, selectedTool,
                 canvasInitialized, keydownRegistered, shape,
                 loadImageRetries>>

\* imgElement.onload of applyCrop: the cropped image goes on the canvas,
\* the tool becomes draw, and a save is scheduled that keeps the history
cropImgOnload(i) ==
  /\ i \in 1..Len(tasks)
  /\ tasks[i].kind = "cropImgOnload" /\ ~tasks[i].stale
  /\ fabricCanvas' =
       LET c == [fabricCanvas EXCEPT !.objs = Append(@, ImageObj(tasks[i].arg))]
       IN IF selectedTool = "draw" THEN c
          ELSE ToolEffect(ToolEffectCleanup(c), "draw")
  /\ selectedTool' = "draw"
  /\ shape' = IF selectedTool = "draw" THEN shape ELSE FALSE
  /\ tasks' = Append(RemoveAt(tasks, i), LiveTask("saveTimer", CropSrc))
  /\ probe' = NoProbe
  /\ lastKey' = NoKey
  /\ UNCHANGED <<ffVars, pageVars, hasCanvas, history, historyIndex,
                 isLoadingHistory, loadedImageRef, canvasInitialized,
                 keydownRegistered, loadImageRetries>>

\* --------------------------------------- callbacks of unmounted editors
\* a callback scheduled by an instance that has been unmounted since: its
\* canvasRef and fabricCanvasRef are null.  reached: whether the upload's
\* onload gets past canvas.clear() on the disposed canvas
staleTask(i, reached) ==
  /\ i \in 1..Len(tasks)
  /\ tasks[i].stale
  /\ LET k == tasks[i].kind
     IN /\ tasks' = IF k = "loadImage" THEN tasks
                    ELSE IF k = "readerOnload"
                      THEN Append(RemoveAt(tasks, i),
                                  [kind |-> "uploadTimer", arg |-> tasks[i].arg,
                                   stale |-> TRUE])
                    ELSE RemoveAt(tasks, i)
        /\ loadImageRetries' = IF k = "loadImage" THEN Bump(loadImageRetries)
                               ELSE loadImageRetries
        /\ hasExistingFrame' = IF k = "uploadImgOnload" /\ reached THEN TRUE
                               ELSE hasExistingFrame
  /\ UNCHANGED <<ffVars, videoFile, videoUrl, duration, position, frameUrl,
                 isExtracting, activeTab, frameToEdit, frameToEditRef,
                 videoRef, videoEls, blobTasks,
                 hasCanvas, fabricCanvas, history, historyIndex,
                 isLoadingHistory, loadedImageRef, selectedTool,
                 canvasInitialized, keydownRegistered, shape, lastKey, probe>>

\* ---------------------------------------------------------------- Next
TaskIds == 1..MaxTasks

\* the initial image on its way to the canvas
LoaderNext ==
  \/ \E i \in TaskIds : loadImage(i)
  \/ \E i \in TaskIds, ok \in BOOLEAN : initImgOnload(i, ok)

SaveNext == \E i \in TaskIds : saveTimer(i)

NewFrameNext ==
  \/ \E r \in 0..MaxRatio : createNewFrame(r)
  \/ \E i \in TaskIds : createFrameTimer(i)

UploadNext ==
  \/ \E n \in 1..NumUploads : handleFileUpload(n)
  \/ \E i \in TaskIds : readerOnload(i)
  \/ \E i \in TaskIds : uploadTimer(i)
  \/ \E i \in TaskIds, ok \in BOOLEAN : uploadImgOnload(i, ok)

StaleNext == \E i \in TaskIds, reached \in BOOLEAN : staleTask(i, reached)

SwitchNext ==
  \/ TabGrabber
  \/ TabEditor

EditFrameNext == \E ok \in BOOLEAN : handleEditFrame(ok)

HistoryNext ==
  \/ undo
  \/ redo
  \/ \E i \in TaskIds, ok \in BOOLEAN : historyLoaded(i, ok)

KeyNext == \E shift \in BOOLEAN : pressShortcut(shift)

ResetNext ==
  \/ \E ok \in BOOLEAN : clearCanvas(ok)
  \/ \E i \in TaskIds, ok \in BOOLEAN : clearImgOnload(i, ok)

DrawNext ==
  \/ drawStroke
  \/ shapeMouseDown
  \/ shapeMouseUp
  \/ \E t \in Tools : selectTool(t)

GrabNext ==
  \/ \E f \in 0..NumFiles : onChooseFile(f)
  \/ \E e \in ElIds : onLoadedMetadata(e)
  \/ \E t \in 0..MaxPos : onSeekSlider(t)
  \/ extractFrame
  \/ \E e \in ElIds, ok \in BOOLEAN : Seeked(e, ok)
  \/ \E ok \in BOOLEAN : toBlobCallback(ok)

\* the grabber page and its two tabs
Next == GrabNext \/ SwitchNext

Spec == Init /\ [][Next]_vars

\* the browser delivers the events it has queued: metadata of a loading
\* element, seeked of a seek under way, the callback of toBlob
FairSpec ==
  /\ Spec
  /\ WF_vars(\E e \in ElIds : onLoadedMetadata(e))
  /\ WF_vars(\E e \in ElIds, ctxOk \in BOOLEAN : Seeked(e, ctxOk))
  /\ WF_vars(\E blobOk \in BOOLEAN : toBlobCallback(blobOk))

\* the editor, opened from the page with or without a grabbed frame
GrabbedFrame == [kind |-> "url", file |-> 1, t |-> 0, reqFile |-> 1, reqPos |-> 0]

EditorInit ==
  /\ FFAbsent
  /\ activeTab = "editor"
  /\ hasExistingFrame = FALSE
  /\ isExtracting = FALSE
  /\ videoRef = 0
  /\ videoEls = [e \in ElIds |-> NoEl]
  /\ blobTasks = <<>>
  /\ position = 0
  /\ loadImageRetries = 0
  /\ history = <<>> /\ historyIndex = -1 /\ isLoadingHistory = FALSE
  /\ selectedTool = "draw" /\ canvasInitialized = 0 /\ shape = FALSE
  /\ lastKey = NoKey /\ probe = NoProbe
  /\ fabricCanvas = ToolEffect(CanvasEventsEffect(NoCanvas), "draw")
  /\ keydownRegistered = KeyboardEffect(NoCanvas)
  /\ \/ \* through the Frame Editor tab, nothing chosen yet
        /\ videoFile = 0 /\ videoUrl = 0 /\ duration = 0
        /\ frameUrl = NoUrl /\ frameToEdit = NoUrl /\ frameToEditRef = NoUrl
        /\ hasCanvas = FALSE /\ loadedImageRef = NoUrl
        /\ tasks = <<>>
     \/ \* through Edit Frame on a frame grabbed from file 1
        /\ videoFile = 1 /\ videoUrl = 1 /\ duration = FileDuration(1)
        /\ frameUrl = GrabbedFrame
        /\ frameToEdit = GrabbedFrame /\ frameToEditRef = GrabbedFrame
        /\ hasCanvas = TRUE /\ loadedImageRef = GrabbedFrame
        /\ tasks = <<LiveTask("loadImage", GrabbedFrame)>>

\* frames entering the editor while the user moves between the tabs
ImportNext ==
  \/ SwitchNext \/ EditFrameNext
  \/ LoaderNext \/ SaveNext \/ NewFrameNext \/ UploadNext \/ StaleNext
  \/ KeyNext

ImportSpec == EditorInit /\ [][ImportNext]_vars

\* timers that are due fire and image loads settle, also those of an
\* instance that has been unmounted
FairImportSpec ==
  /\ ImportSpec
  /\ WF_vars(\E i \in TaskIds : loadImage(i))
  /\ WF_vars(\E i \in TaskIds, ok \in BOOLEAN : initImgOnload(i, ok))
  /\ WF_vars(StaleNext)

\* one editor instance at work on its canvas
EditorNext ==
  \/ LoaderNext \/ SaveNext \/ NewFrameNext
  \/ HistoryNext \/ KeyNext \/ ResetNext \/ DrawNext

EditorSpec == EditorInit /\ [][EditorNext]_vars

\* ------------------------------------- the editor with a history behind it
\* the k-th snapshot of such a history: canvases told apart by their width
InputSnapshot(k) ==
  [canvas |-> ToJSON(<<BgRect>>),
   width |-> ASPECT_RATIOS[1].width - k,
   height |-> ASPECT_RATIOS[1].height]

InputHistory(n) == [k \in 1..n |-> InputSnapshot(k)]

\* the canvas that shows snapshot i of h (a new frame when h is empty)
\* with the objects objs, under the tool tool
CanvasAt(h, i, objs, tool) ==
  LET w == IF i >= 0 THEN h[i + 1].width ELSE ASPECT_RATIOS[1].width
      hh == IF i >= 0 THEN h[i + 1].height ELSE ASPECT_RATIOS[1].height
  IN ToolEffect([NewCanvas(w, hh) EXCEPT !.objs = objs], tool)

\* an editor opened through the tab, on a frame that n saves have been made
\* on and whose history stands at index i; the user is idle with the
\* rectangle tool, is dragging a rectangle, or has made a crop selection
OnHistory(lens) ==
  /\ FFAbsent
  /\ activeTab = "editor"
  /\ hasExistingFrame = TRUE
  /\ isExtracting = FALSE
  /\ videoRef = 0
  /\ videoEls = [e \in ElIds |-> NoEl]
  /\ blobTasks = <<>>
  /\ position = 0
  /\ videoFile = 0 /\ videoUrl = 0 /\ duration = 0
  /\ frameUrl = NoUrl /\ frameToEdit = NoUrl /\ frameToEditRef = NoUrl
  /\ hasCanvas = TRUE /\ loadedImageRef = NoUrl
  /\ loadImageRetries = 0
  /\ canvasInitialized = 1
  /\ keydownRegistered = KeyboardEffect(NoCanvas)
  /\ isLoadingHistory = FALSE
  /\ tasks = <<>>
  /\ lastKey = NoKey /\ probe = NoProbe
  /\ \E n \in lens :
       /\ history = InputHistory(n)
       /\ historyIndex \in (IF n = 0 THEN {-1} ELSE 0..(n - 1))
  /\ \/ /\ selectedTool = "rectangle" /\ shape = FALSE
        /\ fabricCanvas = CanvasAt(history, historyIndex, <<BgRect>>,
                                   "rectangle")
     \/ /\ selectedTool = "rectangle" /\ shape = TRUE
        /\ fabricCanvas = CanvasAt(history, historyIndex,
                                   <<BgRect, ShapeObj("rectangle")>>,
                                   "rectangle")
     \/ /\ selectedTool = "crop" /\ shape = FALSE
        /\ fabricCanvas = CanvasAt(history, historyIndex,
                                   <<BgRect, CropRectObj>>, "crop")

CropNext ==
  \/ applyCrop
  \/ \E i \in TaskIds : cropImgOnload(i)

\* saveHistory() on every history it can meet: up to the limit, at any index
SaveInit == OnHistory(0..HistoryLimit)

SaveStep == shapeMouseUp \/ CropNext \/ SaveNext

SaveSpec == SaveInit /\ [][SaveStep]_vars

\* saves, crops, undo and redo on the short histories
HistoryInit == OnHistory(0..MaxLen)

HistoryStep == SaveStep \/ HistoryNext

HistorySpec == HistoryInit /\ [][HistoryStep]_vars

\* a loadFromJSON that has been started settles, one way or the other
FairHistorySpec ==
  /\ HistorySpec
  /\ WF_vars(\E i \in TaskIds, ok \in BOOLEAN : historyLoaded(i, ok))

\* ------------------------------------------- the ffmpeg.wasm grabber page
UrlIds == 1..MaxUrls

\* URL.createObjectURL(blob): an id no live frame URL carries
FreshUrl(urls) == CHOOSE u \in UrlIds \ urls : \A w \in UrlIds \ urls : u <= w

\* an updater that leaves the previous frame URL alive
RevokeNothing(urls, prev) == urls

\* if (prev) URL.revokeObjectURL(prev)
Revoke(urls, prev) == IF prev # NoUrl THEN urls \ {prev.id} ELSE urls

MaxOf2(a, b) == IF a > b THEN a ELSE b

\* Math.max(0, Math.min(position, Math.max(0.001, duration))), in ms
SeekArgMs(p, d) ==
  LET ms == SliderStepCents * 10
  IN MaxOf2(0, MinOf(p * ms, MaxOf2(MinDurationMs, d * ms)))

\* the page is mounted: nothing loaded, the preload effect about to run
FFMounted ==
  /\ isLoadingFFmpeg = FALSE /\ isReady = FALSE /\ ffmpegRef = FALSE
  /\ ffLoad = NoLoad /\ preloadDue = TRUE
  /\ ffJob = NoJob
  /\ objectUrls = {} /\ loadFailed = FALSE

FFInit ==
  /\ PageInit
  /\ EditorAbsent
  /\ tasks = <<>>
  /\ loadImageRetries = 0
  /\ FFMounted

\* loadFFmpeg() as the latest render closed it, called by the preload
\* effect or by extractFrame
loadFFmpegCall(by) ==
  IF isReady \/ isLoadingFFmpeg
    THEN UNCHANGED <<isLoadingFFmpeg, ffLoad>>
    ELSE /\ isLoadingFFmpeg' = TRUE
         /\ ffLoad' = [by |-> by]

\* useEffect(() => { loadFFmpeg(); }, [loadFFmpeg]): it runs after mount
\* and after every render in which isLoadingFFmpeg or isReady has changed
ffPreloadEffect ==
  /\ preloadDue
  /\ loadFFmpegCall("effect")
  /\ preloadDue' = (isLoadingFFmpeg' # isLoadingFFmpeg)
  /\ UNCHANGED <<isReady, ffmpegRef, ffJob, objectUrls, loadFailed,
                 pageVars, edVars>>

\* the imports and ffmpeg.load() settle; ok = FALSE: one of them rejects
ffLoadSettled(ok) ==
  /\ ffLoad # NoLoad
  /\ ffLoad' = NoLoad
  /\ ffmpegRef' = (ffmpegRef \/ ok)
  /\ isReady' = (isReady \/ ok)
  /\ isLoadingFFmpeg' = FALSE
  /\ loadFailed' = (loadFailed \/ ~ok)
  /\ preloadDue' = TRUE
  /\ IF ffJob.stage = "awaitLoad"
       THEN IF ok
              THEN /\ ffJob' = [ffJob EXCEPT !.stage = "running"]
                   /\ UNCHANGED isExtracting
              ELSE /\ ffJob' = NoJob
                   /\ isExtracting' = FALSE
       ELSE UNCHANGED <<ffJob, isExtracting>>
  /\ UNCHANGED <<objectUrls, videoFile, videoUrl, duration, position,
                 frameUrl, activeTab, frameToEdit, frameToEditRef,
                 hasExistingFrame, videoRef, videoEls, blobTasks, edVars>>

\* onChooseFile(file) of this page
ffChooseFile(f) ==
  /\ frameUrl' = NoUrl
  /\ objectUrls' = Revoke(objectUrls, frameUrl)
  /\ SetVideo(f)
  /\ UNCHANGED <<isLoadingFFmpeg, isReady, ffmpegRef, ffLoad, preloadDue,
                 ffJob, loadFailed, isExtracting, activeTab, frameToEdit,
                 frameToEditRef, hasExistingFrame, blobTasks, edVars>>

\* is the Update preview button clickable: disabled={!isReady || isExtracting}
UpdatePreviewEnabled == isReady /\ ~isExtracting

\* extractFrame() up to its first await that leaves the page
ffExtractFrame ==
  /\ VideoShown
  /\ UpdatePreviewEnabled
  /\ videoFile # 0
  /\ LET job == [stage |-> "running", file |-> videoFile,
                 seek |-> SeekArgMs(position, duration)]
     IN IF ffmpegRef
          THEN /\ isExtracting' = TRUE
               /\ ffJob' = job
               /\ UNCHANGED <<isLoadingFFmpeg, ffLoad, preloadDue>>
          ELSE /\ loadFFmpegCall("user")
               /\ preloadDue' = (preloadDue \/ isLoadingFFmpeg' # isLoadingFFmpeg)
               /\ IF isLoadingFFmpeg' # isLoadingFFmpeg
                    THEN /\ isExtracting' = TRUE
                         /\ ffJob' = [job EXCEPT !.stage = "awaitLoad"]
                    ELSE \* loadFFmpeg returned at once: "FFmpeg not ready"
                         /\ isExtracting' = FALSE
                         /\ ffJob' = NoJob
  /\ UNCHANGED <<isReady, ffmpegRef, objectUrls, loadFailed,
                 videoFile, videoUrl, duration, position, frameUrl,
                 activeTab, frameToEdit, frameToEditRef, hasExistingFrame,
                 videoRef, videoEls, blobTasks, edVars>>

\* writeFile, exec and readFile settle; ok = FALSE: one of them throws.
\* On success the new URL is created and setFrameUrl revokes the previous
\* one (as does the cleanup of the object URL effect)
ffExtractSettled(ok) ==
  /\ ffJob.stage = "running"
  /\ IF ok
       THEN /\ UrlIds \ objectUrls # {}
            /\ LET id == FreshUrl(objectUrls)
               IN /\ frameUrl' = [kind |-> "url", id |-> id, file |-> ffJob.file,
                                  ms |-> ffJob.seek]
                  /\ objectUrls' = Revoke(objectUrls, frameUrl) \cup {id}
            /\ ffJob' = [ffJob EXCEPT !.stage = "cleanup"]
            /\ UNCHANGED isExtracting
       ELSE /\ ffJob' = NoJob
            /\ isExtracting' = FALSE
            /\ UNCHANGED <<frameUrl, objectUrls>>
  /\ UNCHANGED <<isLoadingFFmpeg, isReady, ffmpegRef, ffLoad, preloadDue,
                 loadFailed, videoFile, videoUrl, duration, position,
                 activeTab, frameToEdit, frameToEditRef, hasExistingFrame,
                 videoRef, videoEls, blobTasks, edVars>>

\* the two deleteFile calls settle, whatever their outcome, and the
\* finally block runs
ffCleanupDone ==
  /\ ffJob.stage = "cleanup"
  /\ ffJob' = NoJob
  /\ isExtracting' = FALSE
  /\ UNCHANGED <<isLoadingFFmpeg, isReady, ffmpegRef, ffLoad, preloadDue,
                 objectUrls, loadFailed, videoFile, videoUrl, duration,
                 position, frameUrl, activeTab, frameToEdit, frameToEditRef,
                 hasExistingFrame, videoRef, videoEls, blobTasks, edVars>>

FFNext ==
  \/ ffPreloadEffect
  \/ \E ok \in BOOLEAN : ffLoadSettled(ok)
  \/ \E f \in 0..NumFiles : ffChooseFile(f)
  \/ \E e \in ElIds : onLoadedMetadata(e)
  \/ \E t \in 0..MaxPos : onSeekSlider(t)
  \/ ffExtractFrame
  \/ \E ok \in BOOLEAN : ffExtractSettled(ok)
  \/ ffCleanupDone

FFSpec == FFInit /\ [][FFNext]_vars

\* effects run after the render that queued them, and the promises of
\* the ffmpeg load and of the extraction settle
FairFFSpec ==
  /\ FFSpec
  /\ WF_vars(ffPreloadEffect)
  /\ WF_vars(\E ok \in BOOLEAN : ffLoadSettled(ok))
  /\ WF_vars(\E ok \in BOOLEAN : ffExtractSettled(ok))
  /\ WF_vars(ffCleanupDone)

\* ------------------------------------------------------------ properties
\* C1: the frame stored in frameUrl is the frame of the video at the slider
\* position that was current when Get Frame was clicked, whatever the user
\* did to the slider before the seeked event fired.
C1_FrameAtClickedPosition ==
  frameUrl # NoUrl => frameUrl.t = frameUrl.reqPos

\* C4: in every reachable state each video element carries at most one
\* handleSeeked listener, and a listener is registered only while
\* isExtracting is true.
C4_AtMostOneListener ==
  \A e \in ElIds :
     /\ Len(videoEls[e].listeners) <= 1
     /\ videoEls[e].listeners # <<>> => isExtracting

\* a listener is registered and the slider has been moved since the click
C4_Witness ==
  /\ VideoShown
  /\ Len(videoEls[videoRef].listeners) = 1
  /\ videoEls[videoRef].listeners[1].pos # position

\* C5: the download link names the file frame_<t>s.jpg with t the video
\* time of the frame that frameUrl holds, also after the slider has moved.
C5_DownloadNameIsFrameTime ==
  (VideoShown /\ frameUrl # NoUrl) =>
     DownloadName(position).cents = ToFixed2(frameUrl.t)

\* C2: once extractFrame has set isExtracting to true it eventually returns
\* to false, also when the user chooses another file or switches tab while
\* the seek is pending.
C2_ExtractingEventuallyFalse == isExtracting ~> ~isExtracting

\* C3: from history index i >= 1, an undo followed by a redo, each after
\* the previous load has completed and with nothing else in between, leaves
\* the history array as it was, the index back at i, and the canvas with
\* the objects and dimensions of snapshot i.
C3_UndoRedoRoundTrip ==
  probe.phase = "redone" =>
     /\ history = probe.hist
     /\ historyIndex = probe.idx
     /\ Snapshot(fabricCanvas) = history[historyIndex + 1]

\* an undo from index i >= 1 and the redo after it have both completed
C3_Witness ==
  /\ probe.phase = "redone"
  /\ probe.idx >= 1
  /\ ~isLoadingHistory
  /\ fabricCanvas.objs # <<>>

\* C6: whenever the editor has a canvas, Ctrl/Cmd+Z invokes undo and
\* Ctrl/Cmd+Shift+Z invokes redo, also for a canvas created after mount.
C6_ShortcutReachesHandler ==
  (lastKey # NoKey /\ lastKey.canvas) => lastKey.handled

\* C7: hasExistingFrame is true exactly when the editor holds a canvas with
\* content.
C7_FlagIffCanvasContent ==
  hasExistingFrame <=> (fabricCanvas # NoCanvas /\ fabricCanvas.objs # <<>>)

\* a loadImage timer is scheduled, by the mounted editor or by one that
\* has been unmounted
LoadImageScheduled ==
  \E i \in 1..Len(tasks) : tasks[i].kind = "loadImage"

\* C8: a scheduled loadImage eventually loads the image or gives up; it
\* does not stay scheduled forever.
C8_LoadImageSettles == LoadImageScheduled ~> ~LoadImageScheduled

\* C9: after loadFFmpeg has failed once, a load is under way only if the
\* user started it by triggering an extraction.
C9_NoAutomaticRetry ==
  (loadFailed /\ ffLoad # NoLoad) => ffLoad.by = "user"

\* C10: the step in which the extraction succeeds puts a new object URL in
\* frameUrl and leaves the previous frame URL revoked; the step in which
\* it throws leaves frameUrl as it was and isExtracting false; the flow's
\* last step leaves isExtracting false; and isExtracting, once true,
\* eventually is false again.
C10_UpdatePreviewEnds ==
  /\ [][(ffJob.stage = "running" /\ ffJob'.stage = "cleanup") =>
          /\ frameUrl'.kind = "url"
          /\ frameUrl' # frameUrl
          /\ frameUrl'.id \in objectUrls'
          /\ frameUrl # NoUrl => frameUrl.id \notin objectUrls']_vars
  /\ [][(ffJob.stage = "running" /\ ffJob' = NoJob) =>
          (frameUrl' = frameUrl /\ ~isExtracting')]_vars
  /\ [][(ffJob.stage = "cleanup" /\ ffJob' = NoJob) => ~isExtracting']_vars
  /\ (isExtracting ~> ~isExtracting)

\* an extraction has succeeded over an earlier frame and the flow is over
C10_Witness ==
  /\ ffJob = NoJob
  /\ ~isExtracting
  /\ frameUrl # NoUrl
  /\ frameUrl.id > 1
  /\ objectUrls = {frameUrl.id}

\* a step in which a shape's mouse:up or a due save timer calls saveHistory()
SaveCalled ==
  \/ /\ shape /\ ~shape'
     /\ fabricCanvas' = fabricCanvas /\ tasks' = tasks
  \/ \E i \in 1..Len(tasks) :
       /\ tasks[i].kind = "saveTimer" /\ ~tasks[i].stale
       /\ tasks' = RemoveAt(tasks, i)

\* C11: the history never holds more than 50 snapshots; a save that would
\* make it 51 drops the oldest snapshot and keeps the others, the new one
\* last
C11_HistoryAtMostFifty ==
  [][/\ Len(history') <= HistoryLimit
     /\ (/\ SaveCalled
         /\ Len(history) = HistoryLimit
         /\ historyIndex = HistoryLimit - 1
         /\ history' # history)
        => history' = Tail(history) \o <<Snapshot(fabricCanvas)>>]_vars

\* a save on a full history at its last index has dropped the oldest entry
C11_Witness ==
  /\ Len(history) = HistoryLimit
  /\ history[1] = InputSnapshot(2)
  /\ history[HistoryLimit] = Snapshot(fabricCanvas)
  /\ historyIndex = HistoryLimit - 1

\* C12: saveHistory() called at index i with a canvas and isLoadingHistory
\* false leaves the entries 0..i of the old history followed by the new
\* snapshot, without the oldest ones beyond 50, and the index on the last
\* entry, so that the Redo button is disabled
C12_SaveTruncatesAndAppends ==
  [][(SaveCalled /\ fabricCanvas # NoCanvas /\ ~isLoadingHistory) =>
       LET kept == MinOf(historyIndex + 2, HistoryLimit)
           drop == historyIndex + 2 - kept
       IN /\ Len(history') = kept
          /\ \A k \in 1..(kept - 1) : history'[k] = history[k + drop]
          /\ history'[kept] = Snapshot(fabricCanvas)
          /\ historyIndex' = kept - 1
          /\ ~(historyIndex' < Len(history') - 1)]_vars

\* a rectangle has been saved at index 1 of a longer history: the entries
\* after index 1 are gone
C12_Witness ==
  /\ Len(history) = 3
  /\ history[2] = InputSnapshot(2)
  /\ history[3] = Snapshot(fabricCanvas)
  /\ fabricCanvas.objs = <<BgRect, ShapeObj("rectangle")>>
  /\ historyIndex = 2
  /\ ~shape


\* C13: the step in which the 100 ms save timer of a reset (clearCanvas,
\* createNewFrame, an uploaded or initial image) runs, nothing else being
\* outstanding, leaves exactly one snapshot in the history and the index
\* at 0
C13_ResetLeavesOneSnapshot ==
  [][(tasks = <<LiveTask("saveTimer", NoSrc)>> /\ tasks' = <<>>)
     => (Len(history') = 1 /\ historyIndex' = 0)]_vars


\* C14: a step in which a freehand stroke is completed on the canvas, the
\* draw tool being active and no history load flagged, appends the
\* snapshot of the canvas with that stroke
C14_StrokeAppendsSnapshot ==
  [][(/\ fabricCanvas # NoCanvas
      /\ fabricCanvas.isDrawingMode
      /\ ~isLoadingHistory
      /\ fabricCanvas' # NoCanvas
      /\ fabricCanvas'.objs = Append(fabricCanvas.objs, PathObj))
     => /\ historyIndex' = historyIndex + 1
        /\ Len(history') = historyIndex' + 1
        /\ history'[historyIndex' + 1] = Snapshot(fabricCanvas')]_vars


C16_TwoUndosGoBackTwo ==
  (probe.phase = "twiceDone" /\ probe.idx >= 2) =>
     historyIndex = probe.idx - 2


\* C17: isLoadingHistory is true whenever a loadFromJSON started by undo or
\* redo has not completed
C17_FlagWhileLoadPending ==
  (\E i \in 1..Len(tasks) :
     tasks[i].kind = "historyLoaded" /\ ~tasks[i].stale)
  => isLoadingHistory

\* C18: isLoadingHistory, once undo or redo has set it, eventually is false
\* again, whether the loads complete or reject
C18_LoadingFlagClears == isLoadingHistory ~> ~isLoadingHistory

\* C19: when the load of an undo or redo has just completed, the canvas has
\* the width and height recorded in the snapshot at the new index
C19_DimensionsOfSnapshot ==
  probe.phase \in JustLoaded =>
     /\ fabricCanvas.width = history[historyIndex + 1].width
     /\ fabricCanvas.height = history[historyIndex + 1].height

====
